---- MODULE Spec2Model ----
(***************************************************************************)
(* Model of the playback coordinator of reproductor.py (class              *)
(* MusicMinimalPlayer): catalog and session state, the UI event handlers,  *)
(* the two watcher threads, the auto-advance threads the end-of-track      *)
(* watcher spawns, and the external media engine seen through the calls    *)
(* the code makes on it.                                                   *)
(*                                                                         *)
(* Threads: the Tk event loop runs one handler at a time (ui_pc); the      *)
(* watchers and every spawned next_song run on their own threads and       *)
(* interleave with the handler between the statements that read or write   *)
(* shared attributes.  play_song_at_index is one step.                     *)
(*                                                                         *)
(* Specifications: Spec is the whole program with the volume left alone    *)
(* and engine reads that succeed; SeqSpec is the event loop alone, with an *)
(* observer of the commands; VolSpec is startup, the volume buttons and    *)
(* shutdown from every stored volume; WatchSpec is the watcher loops with  *)
(* failing engine reads, under the fairness of scheduled threads.          *)
(***************************************************************************)
EXTENDS Integers, Sequences, FiniteSets, Bags, TLC

\* ------------------------------------------------------------------ bounds
MaxLen == 2          \* longest playlist a scan returns
MaxThreads == 1      \* auto-advance threads alive at the same time
VolumeSlack == 25    \* how far outside the scale a volume in config.json may lie
MaxCalls == 2        \* calls of start_player_monitor / start_time_monitor after __init__
MaxFiles == 2        \* entries os.listdir returns for one folder of the scanned tree
MaxSeconds == 61     \* longest elapsed time, in seconds, drawn second by second

\* ------------------------------------------------------------------ values
Names == {"A", "B"}                 \* folder names a scan can find
Unset == "UNSET"                    \* attribute never assigned (AttributeError on read)
NoneName == "None"                  \* Python None
NoMedia == <<>>                     \* engine has no media
DefaultVolume == 80                 \* "volume" in the defaults of load_config
MaxVolume == 100                    \* upper end of the volume scale (volume_up)
MinVolume == 0                      \* lower end of the volume scale (volume_down)
VolumeStep == 10                    \* what one press of + or - changes
EngineVolume0 == 100                \* level of a media player nobody has set yet

\* A scan result: folder name -> number of audio files (0: not registered).
\* Folder A is absent or holds MaxLen files, folder B is absent or holds one:
\* the empty catalog, playlists of different lengths, a folder that disappears.
ScanResults == {pl \in [Names -> 0..MaxLen] : pl["A"] \in {0, MaxLen} /\ pl["B"] <= 1}

\* Tracks of a folder, in sorted order.
TrackList(name, n) == [i \in 1..n |-> <<name, i>>]

VARIABLES
    app,                     \* "off", "constructing", "running", "closed", "crashed"
    has_player,              \* vlc imported: self.player is not None
    disk,                    \* config.json
    config,                  \* self.config
    playlists,               \* self.playlists
    current_playlist_name,   \* self.current_playlist_name
    current_playlist_files,  \* self.current_playlist_files
    current_index,           \* self.current_index
    play_btn,                \* glyph of the play button: "play" or "pause"
    eng_state,               \* player.get_state()
    eng_media,               \* media set on the player
    eng_volume,              \* level of the engine (player.audio_get_volume)
    time_label,              \* text of self.time_label, a sequence of characters
    music_root,              \* the folder tree under ~/Music
    scanned,                 \* what the last scan_playlists(root) call on that tree returned
    player_monitor_running,  \* self.player_monitor_running
    time_monitor_running,    \* self.time_monitor_running
    mon_pc,                  \* end-of-track watcher position
    tm_pc,                   \* time watcher position
    threads,                 \* bag of running next_song threads
    ui_pc,                   \* position of the handler the event loop runs
    ui_tmp,                  \* index computed by next_song/prev_song, not stored yet
    options_open,            \* the modal options window exists
    combo_values,            \* values of its playlist combobox, fixed when it was built
    err_pending,             \* an engine error was caught and no user command followed
    end_dispatched,          \* a next_song was spawned since the engine reached Ended
    hist                     \* what an observer of the run has noted (no program state)

vars == <<app, has_player, disk, config, playlists, current_playlist_name,
          current_playlist_files, current_index, play_btn, eng_state, eng_media,
          eng_volume, time_label, music_root, scanned, player_monitor_running, time_monitor_running, mon_pc, tm_pc,
          threads, ui_pc, ui_tmp, options_open, combo_values, err_pending, end_dispatched,
          hist>>

\* ------------------------------------------------------------------ format_time
\* Text is a sequence of characters.
DigitChars == <<"0", "1", "2", "3", "4", "5", "6", "7", "8", "9">>

\* str(n) for n >= 0
RECURSIVE Digits(_)
Digits(n) ==
    IF n < 10 THEN <<DigitChars[n + 1]>>
    ELSE Digits(n \div 10) \o <<DigitChars[(n % 10) + 1]>>

\* Every character of the text is a decimal digit.
AllDigits(text) == \A i \in 1 .. Len(text) : \E d \in 1 .. 10 : DigitChars[d] = text[i]

\* The number a text of digits reads as.
RECURSIVE DigitsValue(_)
DigitsValue(text) ==
    IF text = <<>> THEN 0
    ELSE 10 * DigitsValue(SubSeq(text, 1, Len(text) - 1))
         + (CHOOSE d \in 0 .. 9 : DigitChars[d + 1] = text[Len(text)])

\* f"{n:02d}": the sign if negative, then the digits, filled with zeros after
\* the sign up to two characters in all.
format_02d(n) ==
    IF n < 0 THEN <<"-">> \o Digits(0 - n)
    ELSE IF n < 10 THEN <<"0">> \o Digits(n)
    ELSE Digits(n)

\* format_time: // and % of Python round towards minus infinity, as \div and
\* % do.
format_time(milliseconds) ==
    LET total_seconds == milliseconds \div 1000
        minutes == total_seconds \div 60
        seconds == total_seconds % 60
    IN  format_02d(minutes) \o <<":">> \o format_02d(seconds)

\* text="00:00" of the label build_ui creates
TimeLabel0 == <<"0", "0", ":", "0", "0">>

\* What player.get_time() can return: the elapsed milliseconds, or -1.
EngineTimes ==
    {-1} \cup {1000 * sec + ms : sec \in 0 .. MaxSeconds, ms \in {0, 999}}
         \cup {125000, 3661000, 5999999, 6000000}

\* ------------------------------------------------------------------ scan_playlists
\* A name is a sequence of pieces: a one-letter stem and, for a file, its
\* extension.  A path is the pieces of its names with "/" between them.
FileNames == {<<"a", ".mp3">>, <<"B", ".MP3">>, <<"c", ".txt">>}

TopNames == {"A", "b"}              \* what the root can hold
SubName == "s"                      \* the folder a top-level folder can hold

\* The pieces in the order of their first differing character's code point.
PieceOrder == <<".MP3", ".mp3", ".txt", "/", "A", "B", "C", "S", "a", "b", "c", "s">>

Rank(piece) == CHOOSE i \in 1 .. Len(PieceOrder) : PieceOrder[i] = piece

\* str.lower() of one piece and of a text
lower_piece(piece) ==
    CASE piece = "A" -> "a" [] piece = "B" -> "b" [] piece = "C" -> "c"
      [] piece = "S" -> "s" [] piece = ".MP3" -> ".mp3" [] OTHER -> piece

lower(text) == [i \in 1 .. Len(text) |-> lower_piece(text[i])]

\* f.lower().endswith((".mp3", ".wav", ".flac", ".aac", ".m4a", ".ogg"))
AudioExtensions == {".mp3", ".wav", ".flac", ".aac", ".m4a", ".ogg"}

is_audio(f) == f # <<>> /\ lower(f)[Len(f)] \in AudioExtensions

\* text1 < text2 as Python compares strings
RECURSIVE Less(_, _)
Less(text1, text2) ==
    IF text2 = <<>> THEN FALSE
    ELSE IF text1 = <<>> THEN TRUE
    ELSE IF text1[1] # text2[1] THEN Rank(text1[1]) < Rank(text2[1])
    ELSE Less(Tail(text1), Tail(text2))

\* Variant of sort_key that compares the paths as they are.
sort_key_as_is(path) == path

\* key=lambda x: x.lower()
sort_key(path) == lower(path)

\* sorted(files, key=...): a stable sort.
RECURSIVE Insert(_, _)
Insert(path, paths) ==
    IF paths = <<>> THEN <<path>>
    ELSE IF Less(sort_key(paths[1]), sort_key(path))
         THEN <<paths[1]>> \o Insert(path, Tail(paths))
         ELSE <<path>> \o paths

RECURSIVE sorted(_)
sorted(paths) ==
    IF paths = <<>> THEN <<>> ELSE Insert(paths[1], sorted(Tail(paths)))

\* os.path.join(folder, f), from the root on
join(folder, f) == folder \o <<"/">> \o f

\* The audio files of a listing, as paths, in the order of the listing.
audio_paths(folder, listing) ==
    LET found == SelectSeq(listing, is_audio)
    IN  [i \in 1 .. Len(found) |-> join(folder, found[i])]

\* Listings: what os.listdir can return for a folder, in any order.
Listings ==
    UNION {{l \in [1 .. n -> FileNames] : \A i, j \in 1 .. n : l[i] = l[j] => i = j}
              : n \in 0 .. MaxFiles}

\* An entry of the root: nothing of that name, a plain file, or a folder with
\* its files and, possibly, one folder of files inside.
NoListing == <<>>

Entries ==
    {[kind |-> "none", files |-> NoListing, has_sub |-> FALSE, sub_files |-> NoListing],
     [kind |-> "file", files |-> NoListing, has_sub |-> FALSE, sub_files |-> NoListing]}
        \cup {[kind |-> "dir", files |-> l, has_sub |-> FALSE, sub_files |-> NoListing]
                  : l \in Listings}
        \cup {[kind |-> "dir", files |-> l, has_sub |-> TRUE, sub_files |-> m]
                  : l \in Listings, m \in Listings}

\* The trees under the root, and a root that is no directory.
NoRoot == [isdir |-> FALSE, entries |-> <<>>]

Roots == {NoRoot} \cup {[isdir |-> TRUE, entries |-> e] : e \in [TopNames -> Entries]}

\* The dictionary scan_playlists returns: key -> sorted paths.  The keys are
\* <<entry>> and <<entry, "/", sub_entry>>.
scan_playlists(root) ==
    IF ~root.isdir THEN <<>>
    ELSE LET dirs == {n \in TopNames : root.entries[n].kind = "dir"}
             top == {n \in dirs : audio_paths(<<n>>, root.entries[n].files) # <<>>}
             nested == {n \in dirs : /\ root.entries[n].has_sub
                                      /\ audio_paths(<<n, "/", SubName>>,
                                                     root.entries[n].sub_files) # <<>>}
         IN  [key \in {<<n>> : n \in top} \cup {<<n, "/", SubName>> : n \in nested} |->
                 IF Len(key) = 1
                 THEN sorted(audio_paths(key, root.entries[key[1]].files))
                 ELSE sorted(audio_paths(key, root.entries[key[1]].sub_files))]

\* No scan_playlists call has been followed yet.
NotScanned == [done |-> FALSE, playlists |-> <<>>]

\* ------------------------------------------------------------------ helpers
\* sorted(self.playlists.keys())
playlist_names(pl) == {n \in Names : pl[n] > 0}

\* playlist_names[0]: first name in sorted order
FirstName(S) == CHOOSE n \in S : \A m \in S : (n = "A") \/ (m # "A")

\* self.playlists.get(name, [])
playlists_get(pl, name) ==
    IF name \in Names /\ pl[name] > 0 THEN TrackList(name, pl[name]) ELSE <<>>

\* The defaults of load_config (the fields the coordinator uses).
DefaultConfig ==
    [playlist |-> "", song_index |-> 0, shuffle |-> TRUE, volume |-> DefaultVolume]

\* json.dump of an int, a bool, and a str or None.  A number is written digit
\* by digit; a literal, and the body of a string between its quotes, is kept
\* in one piece.
json_int(n) == IF n < 0 THEN <<"-">> \o Digits(0 - n) ELSE Digits(n)

json_bool(b) == IF b THEN <<"true">> ELSE <<"false">>

json_str(str) == IF str = NoneName THEN <<"null">> ELSE <<"\"", str, "\"">>

\* json.dump(config, f): the document, as the text of the value under each key.
json_dump(c) ==
    [playlist |-> json_str(c.playlist), song_index |-> json_int(c.song_index),
     shuffle |-> json_bool(c.shuffle), volume |-> json_int(c.volume)]

\* json.load of one value: what the text is decides the type.
json_value(text) ==
    IF text = <<"true">> THEN TRUE
    ELSE IF text = <<"false">> THEN FALSE
    ELSE IF text = <<"null">> THEN NoneName
    ELSE IF text[1] = "\"" THEN text[2]
    ELSE IF text[1] = "-" THEN 0 - DigitsValue(Tail(text))
    ELSE DigitsValue(text)

\* json.load(f)
json_load(doc) == [key \in DOMAIN doc |-> json_value(doc[key])]

\* Variant of update in which the keys already there win, as setdefault
\* would do.
update_keeps_defaults(c, loaded) ==
    [key \in DOMAIN c \cup DOMAIN loaded |->
        IF key \in DOMAIN c THEN c[key] ELSE loaded[key]]

\* config.update(loaded)
update(c, loaded) ==
    [key \in DOMAIN c \cup DOMAIN loaded |->
        IF key \in DOMAIN loaded THEN loaded[key] ELSE c[key]]

\* load_config(): the defaults, updated with the document when config.json
\* exists and parses; a missing or corrupt file leaves the defaults.
load_config(d) ==
    IF d.state = "ok" THEN update(DefaultConfig, json_load(d.data)) ELSE DefaultConfig

\* save_config(config): config.json is rewritten with the whole record
save_config(c) == [state |-> "ok", data |-> json_dump(c)]

\* The text that stands for a file that is not there or does not parse; it is
\* never read.
NoDocument == json_dump(DefaultConfig)

\* player.is_playing()
is_playing == eng_state = "Playing"

InRange(idx, files) == 0 <= idx /\ idx < Len(files)

min(a, b) == IF a <= b THEN a ELSE b
max(a, b) == IF a >= b THEN a ELSE b

\* ------------------------------------------------------------------ observer
\* hist is no state of the program: it is what an observer of the run has
\* noted.  Its mode says what it watches: "off" nothing, "commands" the
\* commands of the event loop, "watchers" the two watcher loops, "threads"
\* the watcher threads started and returned, "race" a next_song of the event
\* loop and one of the end-of-track watcher that run at the same time.
\*   phase, index, name, catalog, eng: the last command ("next", "prev",
\*     "next_prev" for prev_song right after next_song, "select", "closed",
\*     "restarted") with the index and engine state it started from, the name
\*     selected, or the playlist, index and catalog the program was closed
\*     with; any other command or the end of a track clears them.  In mode
\*     "race": "next" for a next_song of the event loop with the index it
\*     started from, "both" when a spawned next_song runs beside it and
\*     neither had written the index (the index is the one both started from).
\*   saved: the session record the program was closed with, until the first
\*     command after the next startup; phase "reloaded" is a startup after a
\*     close against another catalog.
\*   mon, tm: per watcher "failed" after an engine call raised, "polled" when
\*     the loop has entered its body again; cleared at startup and shutdown.
\*   mon_threads, tm_threads: threads running monitor_player / monitor_time
\*     (started and not returned); calls: start_player_monitor and
\*     start_time_monitor calls made after __init__.
\* An observer that is off has nothing to note in.
Observer(mode) ==
    IF mode = "off" THEN [mode |-> "off"]
    ELSE [mode |-> mode, phase |-> "none", index |-> 0, name |-> Unset,
          catalog |-> [n \in Names |-> 0], eng |-> "none", mon |-> "none",
          tm |-> "none", mon_threads |-> 0, tm_threads |-> 0, calls |-> 0,
          saved |-> DefaultConfig]

NoCommand ==
    [hist EXCEPT !.phase = "none", !.index = 0, !.name = Unset,
                 !.catalog = [n \in Names |-> 0], !.eng = "none",
                 !.saved = DefaultConfig]

NoFailure == [hist EXCEPT !.mon = "none", !.tm = "none"]

note_command == IF hist.mode \in {"commands", "race"} THEN NoCommand ELSE hist

\* A spawned next_song that has not read the index yet, and no other.
OneThreadAtStart == threads = SetToBag({[pc |-> "next", tmp |-> 0]})

note_step(delta) ==
    IF hist.mode = "commands"
    THEN IF delta = -1 /\ hist.phase = "next"
         THEN [hist EXCEPT !.phase = "next_prev"]
         ELSE [NoCommand EXCEPT !.phase = (IF delta = 1 THEN "next" ELSE "prev"),
                                !.index = current_index, !.eng = eng_state]
    ELSE IF hist.mode = "race"
    THEN IF delta # 1 \/ current_playlist_files = <<>> THEN NoCommand
         ELSE [NoCommand EXCEPT !.phase = (IF OneThreadAtStart THEN "both"
                                           ELSE IF threads = EmptyBag THEN "next"
                                           ELSE "none"),
                                !.index = current_index]
    ELSE hist

\* The end-of-track watcher starts a next_song thread.
note_spawn ==
    IF hist.mode # "race" THEN hist
    ELSE IF hist.phase = "next" /\ ui_pc = "store" /\ threads = EmptyBag
         THEN [hist EXCEPT !.phase = "both"]
         ELSE NoCommand

note_select(playlist_name) ==
    IF hist.mode # "commands" THEN hist
    ELSE IF playlist_name \in playlist_names(playlists)
         THEN [NoCommand EXCEPT !.phase = "select", !.name = playlist_name]
         ELSE NoCommand

note_close ==
    IF hist.mode = "commands"
    THEN [NoCommand EXCEPT !.phase = "closed", !.index = current_index,
                           !.name = current_playlist_name, !.catalog = playlists,
                           !.saved = config]
    ELSE IF hist.mode = "watchers" THEN NoFailure
    ELSE IF hist.mode = "race" THEN NoCommand ELSE hist

note_start(scan) ==
    IF hist.mode = "commands"
    THEN (IF hist.phase = "closed"
          THEN (IF scan = hist.catalog THEN [hist EXCEPT !.phase = "restarted"]
                ELSE [NoCommand EXCEPT !.phase = "reloaded", !.saved = hist.saved])
          ELSE NoCommand)
    ELSE IF hist.mode = "watchers" THEN NoFailure
    ELSE IF hist.mode = "threads" THEN Observer("threads")
    ELSE IF hist.mode = "race" THEN NoCommand ELSE hist

note_exit == IF hist.mode = "threads" THEN Observer("threads") ELSE hist

note_threads(player, time) ==
    IF hist.mode = "threads"
    THEN [hist EXCEPT !.mon_threads = @ + player, !.tm_threads = @ + time]
    ELSE hist

note_call(player, time) ==
    IF hist.mode = "threads"
    THEN [hist EXCEPT !.calls = @ + 1, !.mon_threads = @ + player, !.tm_threads = @ + time]
    ELSE hist

note_failure(watcher) ==
    IF hist.mode = "watchers" THEN [hist EXCEPT ![watcher] = "failed"] ELSE hist

note_poll(watcher, entered) ==
    IF hist.mode = "watchers" /\ hist[watcher] = "failed" /\ entered
    THEN [hist EXCEPT ![watcher] = "polled"]
    ELSE IF hist.mode = "threads" /\ ~entered
    THEN (IF watcher = "mon" THEN note_threads(-1, 0) ELSE note_threads(0, -1))
    ELSE hist

\* ------------------------------------------------------------------ engine
\* The engine is external: these are the effects of the calls the code makes.

\* player.play(): starts or resumes what is loaded; nothing to start without
\* media, and a finished input is not restarted.
engine_play(st, md) ==
    IF md = NoMedia \/ st = "Ended" THEN st ELSE "Playing"

\* player.pause()
engine_pause(st) == IF st = "Playing" THEN "Paused" ELSE st

\* player.stop()
engine_stop(st) == "Stopped"

\* The volume scale of the engine.
OnScale(v) == MinVolume <= v /\ v <= MaxVolume

\* player.audio_set_volume(level): the engine takes a level on its scale; one
\* outside it may be refused, and the callers do not look at the result.
LevelTaken(level) == IF OnScale(level) THEN {TRUE} ELSE BOOLEAN

audio_set_volume(level, taken) == IF taken THEN level ELSE eng_volume

\* The mark of a spawn for a natural end lasts while the engine stays Ended.
EndSeen(st) == st = "Ended" /\ end_dispatched

\* ------------------------------------------------------------------ play_song_at_index
\* Variant of play_song_at_index without the test idx < 0: a negative index
\* then addresses the list from its end, as Python lists do.
play_song_at_index_no_lower_bound(idx, outcome) ==
    IF Len(current_playlist_files) = 0
       \/ idx >= Len(current_playlist_files)
       \/ idx < 0 - Len(current_playlist_files)
    THEN [index |-> current_index, config |-> config, disk |-> disk,
          eng_state |-> eng_state, eng_media |-> eng_media,
          eng_volume |-> eng_volume, play_btn |-> play_btn, result |-> "rejected"]
    ELSE LET cfg == [config EXCEPT !.song_index = idx]
             file_path == current_playlist_files[
                              IF idx < 0 THEN Len(current_playlist_files) + idx + 1
                              ELSE idx + 1]
         IN  IF has_player /\ outcome = "error"
             THEN [index |-> idx, config |-> cfg, disk |-> save_config(cfg),
                   eng_state |-> eng_state, eng_media |-> eng_media,
                   eng_volume |-> eng_volume, play_btn |-> play_btn,
                   result |-> "error"]
             ELSE [index |-> idx, config |-> cfg, disk |-> save_config(cfg),
                   eng_state |-> IF has_player THEN "Playing" ELSE eng_state,
                   eng_media |-> IF has_player THEN file_path ELSE eng_media,
                   eng_volume |-> IF has_player
                                  THEN audio_set_volume(cfg.volume, outcome # "refused")
                                  ELSE eng_volume,
                   play_btn |-> "pause", result |-> "ok"]

\* The effect of play_song_at_index(idx) on the state, as a record of the new
\* values.  outcome: "ok", "error" when media_new/parse raises inside the
\* try, or "refused" when all calls return and the engine refuses the level.
play_song_at_index(idx, outcome) ==
    IF Len(current_playlist_files) = 0
       \/ idx < 0 \/ idx >= Len(current_playlist_files)
    THEN [index |-> current_index, config |-> config, disk |-> disk,
          eng_state |-> eng_state, eng_media |-> eng_media,
          eng_volume |-> eng_volume, play_btn |-> play_btn, result |-> "rejected"]
    ELSE LET cfg == [config EXCEPT !.song_index = idx]
             file_path == current_playlist_files[idx + 1]
         IN  IF has_player /\ outcome = "error"
             THEN [index |-> idx, config |-> cfg, disk |-> save_config(cfg),
                   eng_state |-> eng_state, eng_media |-> eng_media,
                   eng_volume |-> eng_volume, play_btn |-> play_btn,
                   result |-> "error"]
             ELSE [index |-> idx, config |-> cfg, disk |-> save_config(cfg),
                   eng_state |-> IF has_player THEN "Playing" ELSE eng_state,
                   eng_media |-> IF has_player THEN file_path ELSE eng_media,
                   eng_volume |-> IF has_player
                                  THEN audio_set_volume(cfg.volume, outcome # "refused")
                                  ELSE eng_volume,
                   play_btn |-> "pause", result |-> "ok"]

Outcomes ==
    {"ok", "error"} \cup (IF FALSE \in LevelTaken(config.volume) THEN {"refused"} ELSE {})

\* The assignments of one play_song_at_index call.
ApplyPlay(r) ==
    /\ current_index' = r.index
    /\ config' = r.config
    /\ disk' = r.disk
    /\ eng_state' = r.eng_state
    /\ eng_media' = r.eng_media
    /\ eng_volume' = r.eng_volume
    /\ play_btn' = r.play_btn
    /\ err_pending' = (IF r.result = "error" THEN TRUE ELSE err_pending)
    /\ end_dispatched' = EndSeen(r.eng_state)

\* Variant of next_index that stops at the two ends of the list instead of
\* wrapping around.
next_index_no_wrap(delta) ==
    IF config.shuffle
    THEN 0 .. (Len(current_playlist_files) - 1)
    ELSE {IF current_index + delta < 0 THEN 0
          ELSE IF current_index + delta >= Len(current_playlist_files)
               THEN Len(current_playlist_files) - 1
               ELSE current_index + delta}

\* Variant of next_index that draws the shuffled index with both ends
\* included, as random.randint(0, len) does.
next_index_randint(delta) ==
    IF config.shuffle
    THEN 0 .. Len(current_playlist_files)
    ELSE {(current_index + delta) % Len(current_playlist_files)}

\* next_song / prev_song: the index the handler computes (delta = 1 or -1).
\* random.randrange is any index of the list.
next_index(delta) ==
    IF config.shuffle
    THEN 0 .. (Len(current_playlist_files) - 1)
    ELSE {(current_index + delta) % Len(current_playlist_files)}

\* Where the event loop goes when _load_current_playlist returns.
AfterLoad == IF app = "constructing" THEN "start" ELSE "idle"

\* ------------------------------------------------------------------ Init
NoPlaylists == [n \in Names |-> 0]


\* What config.json can hold when the process starts: any record of the known
\* keys, or no file, or a file that does not parse.  song_index is whatever
\* integer the document holds: from one below to one past the valid indices.
ConfigRecords ==
    [playlist : {""} \cup Names, song_index : (-1) .. MaxLen, shuffle : BOOLEAN,
     volume : {DefaultVolume}]

ConfigFiles ==
    {save_config(c) : c \in ConfigRecords}
        \cup {[state |-> "missing", data |-> NoDocument],
              [state |-> "corrupt", data |-> NoDocument]}

\* The process is not running; config.json is one of the given files.
InitOn(files, mode, roots) ==
    /\ app = "off"
    /\ music_root \in roots
    /\ scanned = NotScanned
    /\ has_player \in BOOLEAN
    /\ disk \in files
    /\ config = DefaultConfig
    /\ playlists = NoPlaylists
    /\ current_playlist_name = Unset
    /\ current_playlist_files = <<>>
    /\ current_index = 0
    /\ play_btn = "play"
    /\ eng_state = "NothingSpecial"
    /\ eng_media = NoMedia
    /\ eng_volume = EngineVolume0
    /\ time_label = TimeLabel0
    /\ player_monitor_running = FALSE
    /\ time_monitor_running = FALSE
    /\ mon_pc = "none"
    /\ tm_pc = "none"
    /\ threads = EmptyBag
    /\ ui_pc = "idle"
    /\ ui_tmp = 0
    /\ options_open = FALSE
    /\ combo_values = {}
    /\ err_pending = FALSE
    /\ end_dispatched = FALSE
    /\ hist = Observer(mode)

\* The specifications of the program draw the catalog a scan returns from
\* ScanResults and leave the tree aside.
InitWith(files, mode) == InitOn(files, mode, {NoRoot})

Init == InitWith(ConfigFiles, "off")

\* ------------------------------------------------------------------ startup
\* __init__ up to build_ui: config, scan, playlist and index selection.
Construct(scan) ==
    /\ app \in {"off", "crashed"}
    /\ LET cfg == load_config(disk)
           names == playlist_names(scan)
           name == IF names # {}
                   THEN (IF cfg.playlist \in names THEN cfg.playlist ELSE FirstName(names))
                   ELSE Unset
           files == IF names # {} THEN playlists_get(scan, name) ELSE <<>>
       IN  /\ config' = cfg
           /\ playlists' = scan
           /\ current_playlist_name' = name
           /\ current_playlist_files' = files
           /\ current_index' = IF cfg.song_index >= Len(files) THEN 0 ELSE cfg.song_index
    /\ app' = "constructing"
    /\ ui_pc' = "load"
    /\ play_btn' = "play"
    /\ eng_state' = "NothingSpecial"
    /\ eng_media' = NoMedia
    /\ eng_volume' = EngineVolume0
    /\ time_label' = TimeLabel0
    /\ player_monitor_running' = FALSE
    /\ time_monitor_running' = FALSE
    /\ mon_pc' = "none"
    /\ tm_pc' = "none"
    /\ threads' = EmptyBag
    /\ ui_tmp' = 0
    /\ options_open' = FALSE
    /\ combo_values' = {}
    /\ err_pending' = FALSE
    /\ end_dispatched' = FALSE
    /\ hist' = note_start(scan)
    /\ UNCHANGED <<has_player, music_root, scanned, disk>>

\* _load_current_playlist, first half: fetch the files of the current name.
\* Reading an attribute __init__ never assigned raises and ends the process.
load_current_playlist ==
    /\ ui_pc = "load"
    /\ IF current_playlist_name = Unset
       THEN /\ app' = "crashed"
            /\ ui_pc' = "idle"
            /\ UNCHANGED current_playlist_files
       ELSE /\ current_playlist_files' = playlists_get(playlists, current_playlist_name)
            /\ ui_pc' = IF current_playlist_files' = <<>> THEN AfterLoad ELSE "play"
            /\ UNCHANGED app
    /\ UNCHANGED <<hist, has_player, music_root, scanned, time_label, eng_volume, disk, config, playlists, current_playlist_name,
                   current_index, play_btn, eng_state, eng_media,
                   player_monitor_running, time_monitor_running, mon_pc, tm_pc, threads, ui_tmp, options_open, combo_values, err_pending,
                   end_dispatched>>

\* The handler's call play_song_at_index(self.current_index).
ui_play ==
    /\ ui_pc = "play"
    /\ \E outcome \in Outcomes : ApplyPlay(play_song_at_index(current_index, outcome))
    /\ ui_pc' = AfterLoad
    /\ UNCHANGED <<hist, app, has_player, music_root, scanned, time_label, playlists, current_playlist_name,
                   current_playlist_files, player_monitor_running,
                   time_monitor_running, mon_pc, tm_pc, threads, ui_tmp,
                   options_open, combo_values>>

\* start_player_monitor and start_time_monitor at the end of __init__.
start_monitors ==
    /\ ui_pc = "start"
    /\ app' = "running"
    /\ ui_pc' = "idle"
    /\ IF has_player
       THEN /\ player_monitor_running' = TRUE
            /\ time_monitor_running' = TRUE
            /\ mon_pc' = "while"
            /\ tm_pc' = "while"
       ELSE UNCHANGED <<player_monitor_running, time_monitor_running, mon_pc, tm_pc>>
    /\ hist' = (IF has_player THEN note_threads(1, 1) ELSE hist)
    /\ UNCHANGED <<has_player, music_root, scanned, time_label, eng_volume, disk, config, playlists, current_playlist_name,
                   current_playlist_files, current_index, play_btn, eng_state,
                   eng_media, threads, ui_tmp, options_open, combo_values,
                   err_pending, end_dispatched>>

\* Variant of start_player_monitor that does not read the flag.
start_player_monitor_no_flag ==
    /\ app = "running"
    /\ ui_pc = "idle"
    /\ hist.calls < MaxCalls
    /\ IF ~has_player
       THEN /\ hist' = note_call(0, 0)
            /\ UNCHANGED <<player_monitor_running, mon_pc>>
       ELSE /\ player_monitor_running' = TRUE
            /\ mon_pc' = "while"
            /\ hist' = note_call(1, 0)
    /\ UNCHANGED <<app, has_player, music_root, scanned, time_label, eng_volume, disk, config, playlists,
                   current_playlist_name, current_playlist_files, current_index,
                   play_btn, eng_state, eng_media, time_monitor_running, tm_pc,
                   threads, ui_pc, ui_tmp, options_open, combo_values,
                   err_pending, end_dispatched>>

\* start_player_monitor called again on the running player: it returns when
\* there is no engine or the flag is set, else sets the flag and starts a
\* thread on monitor_player.
start_player_monitor ==
    /\ app = "running"
    /\ ui_pc = "idle"
    /\ hist.calls < MaxCalls
    /\ IF ~has_player \/ player_monitor_running
       THEN /\ hist' = note_call(0, 0)
            /\ UNCHANGED <<player_monitor_running, mon_pc>>
       ELSE /\ player_monitor_running' = TRUE
            /\ mon_pc' = "while"
            /\ hist' = note_call(1, 0)
    /\ UNCHANGED <<app, has_player, music_root, scanned, time_label, eng_volume, disk, config, playlists,
                   current_playlist_name, current_playlist_files, current_index,
                   play_btn, eng_state, eng_media, time_monitor_running, tm_pc,
                   threads, ui_pc, ui_tmp, options_open, combo_values,
                   err_pending, end_dispatched>>

\* start_time_monitor called again on the running player.
start_time_monitor ==
    /\ app = "running"
    /\ ui_pc = "idle"
    /\ hist.calls < MaxCalls
    /\ IF ~has_player \/ time_monitor_running
       THEN /\ hist' = note_call(0, 0)
            /\ UNCHANGED <<time_monitor_running, tm_pc>>
       ELSE /\ time_monitor_running' = TRUE
            /\ tm_pc' = "while"
            /\ hist' = note_call(0, 1)
    /\ UNCHANGED <<app, has_player, music_root, scanned, time_label, eng_volume, disk, config, playlists,
                   current_playlist_name, current_playlist_files, current_index,
                   play_btn, eng_state, eng_media, player_monitor_running, mon_pc,
                   threads, ui_pc, ui_tmp, options_open, combo_values,
                   err_pending, end_dispatched>>


\* ------------------------------------------------------------------ UI handlers
\* A button or widget event is taken when the event loop is idle.  The options
\* window holds the grab, so the main window's buttons work only without it.
MainWindowReady == app = "running" /\ ui_pc = "idle" /\ ~options_open
OptionsReady == app = "running" /\ ui_pc = "idle" /\ options_open

\* open_options: the combobox is built from the playlist names of that moment.
open_options ==
    /\ MainWindowReady
    /\ options_open' = TRUE
    /\ combo_values' = playlist_names(playlists)
    /\ hist' = note_command
    /\ UNCHANGED <<app, has_player, music_root, scanned, time_label, eng_volume, disk, config, playlists, current_playlist_name,
                   current_playlist_files, current_index, play_btn, eng_state,
                   eng_media, player_monitor_running, time_monitor_running, mon_pc,
                   tm_pc, threads, ui_pc, ui_tmp, err_pending, end_dispatched>>

\* save_colors: stores the shuffle checkbox with the other settings and
\* destroys the options window.
save_colors(shuffle) ==
    /\ OptionsReady
    /\ config' = [config EXCEPT !.shuffle = shuffle]
    /\ disk' = save_config(config')
    /\ options_open' = FALSE
    /\ combo_values' = {}
    /\ hist' = note_command
    /\ UNCHANGED <<app, has_player, music_root, scanned, time_label, eng_volume, playlists, current_playlist_name,
                   current_playlist_files, current_index, play_btn, eng_state,
                   eng_media, player_monitor_running, time_monitor_running, mon_pc,
                   tm_pc, threads, ui_pc, ui_tmp, err_pending, end_dispatched>>

\* Variant of on_playlist_change that leaves the index where it is.
on_playlist_change_keeps_index(playlist_name) ==
    /\ OptionsReady
    /\ playlist_name \in combo_values
    /\ current_playlist_name' = playlist_name
    /\ config' = [config EXCEPT !.playlist = playlist_name]
    /\ disk' = save_config(config')
    /\ ui_pc' = "load"
    /\ err_pending' = FALSE
    /\ hist' = note_select(playlist_name)
    /\ UNCHANGED <<app, has_player, music_root, scanned, time_label, eng_volume, playlists, current_playlist_files,
                   current_index, play_btn, eng_state, eng_media,
                   player_monitor_running, time_monitor_running, mon_pc, tm_pc,
                   threads, ui_tmp, options_open, combo_values, end_dispatched>>

\* on_playlist_change(playlist_name), up to the call of _load_current_playlist.
\* The name is whatever the combobox offers.
on_playlist_change(playlist_name) ==
    /\ OptionsReady
    /\ playlist_name \in combo_values
    /\ current_playlist_name' = playlist_name
    /\ config' = [config EXCEPT !.playlist = playlist_name]
    /\ disk' = save_config(config')
    /\ current_index' = 0
    /\ ui_pc' = "load"
    /\ err_pending' = FALSE
    /\ hist' = note_select(playlist_name)
    /\ UNCHANGED <<app, has_player, music_root, scanned, time_label, eng_volume, playlists, current_playlist_files, play_btn,
                   eng_state, eng_media, player_monitor_running,
                   time_monitor_running, mon_pc, tm_pc, threads, ui_tmp,
                   options_open, combo_values, end_dispatched>>

\* refresh_playlists, up to the call of _load_current_playlist.
refresh_playlists(scan) ==
    /\ OptionsReady
    /\ playlists' = scan
    /\ LET names == playlist_names(scan)
       IN  IF names # {}
           THEN /\ current_playlist_name' =
                       (IF current_playlist_name \notin names
                        THEN FirstName(names) ELSE current_playlist_name)
                /\ current_playlist_files' = playlists_get(scan, current_playlist_name')
           ELSE /\ current_playlist_name' = NoneName
                /\ current_playlist_files' = <<>>
    /\ current_index' = 0
    /\ ui_pc' = "load"
    /\ err_pending' = FALSE
    /\ hist' = note_command
    /\ UNCHANGED <<app, has_player, music_root, scanned, time_label, eng_volume, disk, config, play_btn, eng_state, eng_media,
                   player_monitor_running, time_monitor_running, mon_pc, tm_pc, threads, ui_tmp, options_open, combo_values, end_dispatched>>

\* Variant of ui_step_song that returns when the new index is the current one.
ui_step_song_skips_same(delta) ==
    /\ MainWindowReady
    /\ err_pending' = FALSE
    /\ IF current_playlist_files = <<>>
       THEN UNCHANGED <<ui_pc, ui_tmp>>
       ELSE \E t \in next_index(delta) :
                IF t = current_index
                THEN UNCHANGED <<ui_pc, ui_tmp>>
                ELSE ui_tmp' = t /\ ui_pc' = "store"
    /\ hist' = note_step(delta)
    /\ UNCHANGED <<app, has_player, music_root, scanned, time_label, eng_volume, disk, config, playlists,
                   current_playlist_name, current_playlist_files, current_index,
                   play_btn, eng_state, eng_media, player_monitor_running,
                   time_monitor_running, mon_pc, tm_pc, threads, options_open,
                   combo_values, end_dispatched>>

\* next_song / prev_song on the event loop: the empty check and the new index.
ui_step_song(delta) ==
    /\ MainWindowReady
    /\ err_pending' = FALSE
    /\ IF current_playlist_files = <<>>
       THEN UNCHANGED <<ui_pc, ui_tmp>>
       ELSE /\ \E t \in next_index(delta) : ui_tmp' = t
            /\ ui_pc' = "store"
    /\ hist' = note_step(delta)
    /\ UNCHANGED <<app, has_player, music_root, scanned, time_label, eng_volume, disk, config, playlists, current_playlist_name,
                   current_playlist_files, current_index, play_btn, eng_state,
                   eng_media, player_monitor_running, time_monitor_running, mon_pc,
                   tm_pc, threads, options_open, combo_values, end_dispatched>>

next_song == ui_step_song(1)

prev_song == ui_step_song(-1)

\* self.current_index = <the computed index>
ui_store ==
    /\ ui_pc = "store"
    /\ current_index' = ui_tmp
    /\ ui_tmp' = 0
    /\ ui_pc' = "play"
    /\ UNCHANGED <<hist, app, has_player, music_root, scanned, time_label, eng_volume, disk, config, playlists, current_playlist_name,
                   current_playlist_files, play_btn, eng_state, eng_media,
                   player_monitor_running, time_monitor_running, mon_pc, tm_pc, threads, options_open, combo_values, err_pending,
                   end_dispatched>>

\* volume_up: ten more, at most the top of the scale; stored, forwarded to the
\* engine when there is one, saved.
volume_up ==
    /\ MainWindowReady
    /\ LET current_vol == config.volume
           new_vol == min(MaxVolume, current_vol + VolumeStep)
       IN  /\ config' = [config EXCEPT !.volume = new_vol]
           /\ \E taken \in LevelTaken(new_vol) :
                  eng_volume' = (IF has_player THEN audio_set_volume(new_vol, taken)
                                 ELSE eng_volume)
    /\ disk' = save_config(config')
    /\ hist' = note_command
    /\ UNCHANGED <<app, has_player, music_root, scanned, time_label, playlists, current_playlist_name,
                   current_playlist_files, current_index, play_btn, eng_state,
                   eng_media, player_monitor_running, time_monitor_running, mon_pc,
                   tm_pc, threads, ui_pc, ui_tmp, options_open, combo_values,
                   err_pending, end_dispatched>>

\* volume_down: ten less, at least the bottom of the scale.
volume_down ==
    /\ MainWindowReady
    /\ LET current_vol == config.volume
           new_vol == max(MinVolume, current_vol - VolumeStep)
       IN  /\ config' = [config EXCEPT !.volume = new_vol]
           /\ \E taken \in LevelTaken(new_vol) :
                  eng_volume' = (IF has_player THEN audio_set_volume(new_vol, taken)
                                 ELSE eng_volume)
    /\ disk' = save_config(config')
    /\ hist' = note_command
    /\ UNCHANGED <<app, has_player, music_root, scanned, time_label, playlists, current_playlist_name,
                   current_playlist_files, current_index, play_btn, eng_state,
                   eng_media, player_monitor_running, time_monitor_running, mon_pc,
                   tm_pc, threads, ui_pc, ui_tmp, options_open, combo_values,
                   err_pending, end_dispatched>>

\* toggle_play
toggle_play ==
    /\ MainWindowReady
    /\ err_pending' = FALSE
    /\ IF has_player /\ is_playing
       THEN /\ eng_state' = engine_pause(eng_state)
            /\ play_btn' = "play"
       ELSE IF has_player
            THEN /\ eng_state' = engine_play(eng_state, eng_media)
                 /\ play_btn' = "pause"
            ELSE UNCHANGED <<eng_state, play_btn>>
    /\ end_dispatched' = EndSeen(eng_state')
    /\ hist' = note_command
    /\ UNCHANGED <<app, has_player, music_root, scanned, time_label, eng_volume, disk, config, playlists, current_playlist_name,
                   current_playlist_files, current_index, eng_media,
                   player_monitor_running, time_monitor_running, mon_pc, tm_pc, threads, ui_pc, ui_tmp, options_open, combo_values>>

\* on_close: clears both flags, saves, stops the engine, destroys the window.
\* Nothing waits for the watcher threads.
on_close ==
    /\ app = "running"
    /\ ui_pc = "idle"
    /\ player_monitor_running' = FALSE
    /\ time_monitor_running' = FALSE
    /\ disk' = save_config(config)
    /\ eng_state' = (IF has_player THEN engine_stop(eng_state) ELSE eng_state)
    /\ end_dispatched' = EndSeen(eng_state')
    /\ app' = "closed"
    /\ options_open' = FALSE
    /\ combo_values' = {}
    /\ hist' = note_close
    /\ UNCHANGED <<has_player, music_root, scanned, time_label, eng_volume, config, playlists, current_playlist_name,
                   current_playlist_files, current_index, play_btn, eng_media,
                   mon_pc, tm_pc, threads, ui_pc, ui_tmp, err_pending>>

\* mainloop returns and the interpreter exits: daemon threads die with it.
process_exit ==
    /\ app = "closed"
    /\ app' = "off"
    /\ config' = DefaultConfig
    /\ playlists' = NoPlaylists
    /\ current_playlist_name' = Unset
    /\ current_playlist_files' = <<>>
    /\ current_index' = 0
    /\ play_btn' = "play"
    /\ eng_state' = "NothingSpecial"
    /\ eng_media' = NoMedia
    /\ eng_volume' = EngineVolume0
    /\ time_label' = TimeLabel0
    /\ mon_pc' = "none"
    /\ tm_pc' = "none"
    /\ threads' = EmptyBag
    /\ ui_tmp' = 0
    /\ err_pending' = FALSE
    /\ end_dispatched' = FALSE
    /\ hist' = note_exit
    /\ UNCHANGED <<has_player, music_root, scanned, disk, player_monitor_running, time_monitor_running,
                   ui_pc, options_open, combo_values>>

\* ------------------------------------------------------------------ engine events
\* The track that is playing reaches its end.
track_ends ==
    /\ eng_state = "Playing"
    /\ eng_state' = "Ended"
    /\ end_dispatched' = FALSE
    /\ hist' = note_command
    /\ UNCHANGED <<app, has_player, music_root, scanned, time_label, eng_volume, disk, config, playlists, current_playlist_name,
                   current_playlist_files, current_index, play_btn, eng_media,
                   player_monitor_running, time_monitor_running, mon_pc, tm_pc, threads, ui_pc, ui_tmp, options_open, combo_values,
                   err_pending>>

\* ------------------------------------------------------------------ watchers
Alive == app \in {"running", "closed"}

\* A fresh next_song thread.
NewThread == [pc |-> "next", tmp |-> 0]

\* Variant of song_ended that trusts the poll alone: whatever is not playing
\* has ended.
song_ended_poll_only(state) == state # "Playing"

\* check_song_ended: whether the state read makes the watcher spawn next_song.
song_ended(state) == state = "Ended" \/ state = "NothingSpecial"

\* Variant of monitor_loop whose loop is `while True`: the flag is not read.
monitor_loop_while_true ==
    /\ Alive
    /\ mon_pc = "while"
    /\ mon_pc' = (IF is_playing THEN "while" ELSE "slept")
    /\ hist' = note_poll("mon", mon_pc' # "done")
    /\ UNCHANGED <<app, has_player, music_root, scanned, time_label, eng_volume, disk, config, playlists,
                   current_playlist_name, current_playlist_files, current_index,
                   play_btn, eng_state, eng_media, player_monitor_running,
                   time_monitor_running, tm_pc, threads, ui_pc, ui_tmp,
                   options_open, combo_values, err_pending, end_dispatched>>

\* monitor_player, loop head: the flag test and the first is_playing().
monitor_loop ==
    /\ Alive
    /\ mon_pc = "while"
    /\ mon_pc' = (IF ~player_monitor_running THEN "done"
                  ELSE IF is_playing THEN "while" ELSE "slept")
    /\ hist' = note_poll("mon", mon_pc' # "done")
    /\ UNCHANGED <<app, has_player, music_root, scanned, time_label, eng_volume, disk, config, playlists, current_playlist_name,
                   current_playlist_files, current_index, play_btn, eng_state,
                   eng_media, player_monitor_running, time_monitor_running,
                   tm_pc, threads, ui_pc, ui_tmp, options_open,
                   combo_values, err_pending, end_dispatched>>

\* monitor_player after the sleep: the second is_playing() and the files test.
monitor_poll ==
    /\ Alive
    /\ mon_pc = "slept"
    /\ mon_pc' = (IF ~is_playing /\ current_playlist_files # <<>> THEN "check" ELSE "while")
    /\ UNCHANGED <<hist, app, has_player, music_root, scanned, time_label, eng_volume, disk, config, playlists, current_playlist_name,
                   current_playlist_files, current_index, play_btn, eng_state,
                   eng_media, player_monitor_running, time_monitor_running, tm_pc,
                   threads, ui_pc, ui_tmp, options_open, combo_values, err_pending,
                   end_dispatched>>

\* check_song_ended: get_state(), and a next_song thread when the track ended.
check_song_ended ==
    /\ Alive
    /\ mon_pc = "check"
    /\ mon_pc' = "while"
    /\ IF current_playlist_files # <<>> /\ song_ended(eng_state)
       THEN /\ BagCardinality(threads) < MaxThreads
            /\ threads' = threads (+) SetToBag({NewThread})
            /\ end_dispatched' = (eng_state = "Ended")
            /\ hist' = note_spawn
       ELSE UNCHANGED <<hist, threads, end_dispatched>>
    /\ UNCHANGED <<app, has_player, music_root, scanned, time_label, eng_volume, disk, config, playlists, current_playlist_name,
                   current_playlist_files, current_index, play_btn, eng_state,
                   eng_media, player_monitor_running, time_monitor_running, tm_pc,
                   ui_pc, ui_tmp, options_open, combo_values, err_pending>>

\* Variant of after_except for an except clause around the loop instead of
\* inside it: the handler runs and the thread function returns.
after_except_outside_loop == "done"

\* Where a watcher is after its except clause (print, sleep(1)): the clause
\* is inside the while loop, so at the flag test.
after_except == "while"

\* monitor_player: is_playing() raises, at the loop head (after the flag test)
\* or after the sleep, and the except clause of the loop catches it.
monitor_except ==
    /\ Alive
    /\ has_player
    /\ \/ mon_pc = "while" /\ player_monitor_running
       \/ mon_pc = "slept"
    /\ mon_pc' = after_except
    /\ hist' = note_failure("mon")
    /\ UNCHANGED <<app, has_player, music_root, scanned, time_label, eng_volume, disk, config, playlists,
                   current_playlist_name, current_playlist_files, current_index,
                   play_btn, eng_state, eng_media, player_monitor_running,
                   time_monitor_running, tm_pc, threads, ui_pc, ui_tmp,
                   options_open, combo_values, err_pending, end_dispatched>>

\* check_song_ended: get_state() raises; its own except clause catches it and
\* the call returns to the loop without a spawn.
check_song_ended_except ==
    /\ Alive
    /\ has_player
    /\ mon_pc = "check"
    /\ mon_pc' = "while"
    /\ hist' = note_failure("mon")
    /\ UNCHANGED <<app, has_player, music_root, scanned, time_label, eng_volume, disk, config, playlists,
                   current_playlist_name, current_playlist_files, current_index,
                   play_btn, eng_state, eng_media, player_monitor_running,
                   time_monitor_running, tm_pc, threads, ui_pc, ui_tmp,
                   options_open, combo_values, err_pending, end_dispatched>>

\* monitor_time, the flag test alone.
monitor_time_head ==
    /\ Alive
    /\ tm_pc = "while"
    /\ tm_pc' = (IF ~time_monitor_running THEN "done" ELSE "body")
    /\ hist' = note_poll("tm", tm_pc' # "done")
    /\ UNCHANGED <<app, has_player, music_root, scanned, time_label, eng_volume, disk, config, playlists,
                   current_playlist_name, current_playlist_files, current_index,
                   play_btn, eng_state, eng_media, player_monitor_running,
                   time_monitor_running, mon_pc, threads, ui_pc, ui_tmp,
                   options_open, combo_values, err_pending, end_dispatched>>

\* monitor_time, the body that leaves the label as it is (no playlist, or
\* get_time raises and update_time_display catches it) and the sleep.  The
\* specifications that do not follow the text of the label take this step for
\* every iteration.
monitor_time_body ==
    /\ Alive
    /\ tm_pc = "body"
    /\ tm_pc' = "while"
    /\ UNCHANGED <<hist, app, has_player, music_root, scanned, time_label, eng_volume, disk, config, playlists,
                   current_playlist_name, current_playlist_files, current_index,
                   play_btn, eng_state, eng_media, player_monitor_running,
                   time_monitor_running, mon_pc, threads, ui_pc, ui_tmp,
                   options_open, combo_values, err_pending, end_dispatched>>

\* player.get_time() now: -1 when the player has no media, else the elapsed
\* milliseconds.
get_time == IF eng_media = NoMedia THEN {-1} ELSE EngineTimes \ {-1}

\* monitor_time, the body with a playlist and an engine: update_time_display
\* reads the elapsed time, formats it and sets the label; then the sleep.
update_time_display(current_time) ==
    /\ Alive
    /\ tm_pc = "body"
    /\ has_player
    /\ current_playlist_files # <<>>
    /\ time_label' = format_time(current_time)
    /\ tm_pc' = "while"
    /\ UNCHANGED <<hist, app, has_player, music_root, scanned, eng_volume, disk, config, playlists,
                   current_playlist_name, current_playlist_files, current_index,
                   play_btn, eng_state, eng_media, player_monitor_running,
                   time_monitor_running, mon_pc, threads, ui_pc, ui_tmp,
                   options_open, combo_values, err_pending, end_dispatched>>

\* monitor_time, the body raising: the except clause of the loop.
monitor_time_except ==
    /\ Alive
    /\ tm_pc = "body"
    /\ tm_pc' = after_except
    /\ hist' = note_failure("tm")
    /\ UNCHANGED <<app, has_player, music_root, scanned, time_label, eng_volume, disk, config, playlists,
                   current_playlist_name, current_playlist_files, current_index,
                   play_btn, eng_state, eng_media, player_monitor_running,
                   time_monitor_running, mon_pc, threads, ui_pc, ui_tmp,
                   options_open, combo_values, err_pending, end_dispatched>>

\* monitor_time, one whole iteration: the flag test, and a body that changes
\* nothing of the program's state whether it raises or not.
monitor_time ==
    /\ Alive
    /\ tm_pc = "while"
    /\ tm_pc' = (IF ~time_monitor_running THEN "done" ELSE "while")
    /\ UNCHANGED <<hist, app, has_player, music_root, scanned, time_label, eng_volume, disk, config, playlists, current_playlist_name,
                   current_playlist_files, current_index, play_btn, eng_state,
                   eng_media, player_monitor_running, time_monitor_running, mon_pc,
                   threads, ui_pc, ui_tmp, options_open, combo_values,
                   err_pending, end_dispatched>>

\* ------------------------------------------------------------------ next_song threads
Without(t) == threads (-) SetToBag({t})
Moved(t, u) == Without(t) (+) SetToBag({u})

\* next_song on a spawned thread: the empty check and the new index.
thread_next(t) ==
    /\ Alive
    /\ BagIn(t, threads)
    /\ t.pc = "next"
    /\ IF current_playlist_files = <<>>
       THEN threads' = Without(t)
       ELSE \E n \in next_index(1) :
                threads' = Moved(t, [t EXCEPT !.pc = "store", !.tmp = n])
    /\ UNCHANGED <<hist, app, has_player, music_root, scanned, time_label, eng_volume, disk, config, playlists, current_playlist_name,
                   current_playlist_files, current_index, play_btn, eng_state,
                   eng_media, player_monitor_running, time_monitor_running, mon_pc,
                   tm_pc, ui_pc, ui_tmp, options_open, combo_values,
                   err_pending, end_dispatched>>

\* self.current_index = <the computed index>
thread_store(t) ==
    /\ Alive
    /\ BagIn(t, threads)
    /\ t.pc = "store"
    /\ current_index' = t.tmp
    /\ threads' = Moved(t, [t EXCEPT !.pc = "play", !.tmp = 0])
    /\ UNCHANGED <<hist, app, has_player, music_root, scanned, time_label, eng_volume, disk, config, playlists, current_playlist_name,
                   current_playlist_files, play_btn, eng_state, eng_media,
                   player_monitor_running, time_monitor_running, mon_pc, tm_pc, ui_pc, ui_tmp, options_open, combo_values, err_pending,
                   end_dispatched>>

\* play_song_at_index(self.current_index), after which the thread ends.
thread_play(t) ==
    /\ Alive
    /\ BagIn(t, threads)
    /\ t.pc = "play"
    /\ \E outcome \in Outcomes : ApplyPlay(play_song_at_index(current_index, outcome))
    /\ threads' = Without(t)
    /\ UNCHANGED <<hist, app, has_player, music_root, scanned, time_label, playlists, current_playlist_name,
                   current_playlist_files, player_monitor_running,
                   time_monitor_running, mon_pc, tm_pc, ui_pc, ui_tmp,
                   options_open, combo_values>>

ThreadStates == [pc : {"next", "store", "play"}, tmp : 0 .. MaxLen]

\* ------------------------------------------------------------------ specification
\* The whole program, with engine reads that do not raise.
Next ==
    \/ \E scan \in ScanResults : Construct(scan)
    \/ load_current_playlist
    \/ ui_play
    \/ start_monitors
    \/ open_options
    \/ \E b \in BOOLEAN : save_colors(b)
    \/ \E n \in Names : on_playlist_change(n)
    \/ \E scan \in ScanResults : refresh_playlists(scan)
    \/ next_song
    \/ prev_song
    \/ ui_store
    \/ toggle_play
    \/ on_close
    \/ process_exit
    \/ track_ends
    \/ monitor_loop
    \/ monitor_poll
    \/ check_song_ended
    \/ monitor_time
    \/ \E t \in ThreadStates : thread_next(t)
    \/ \E t \in ThreadStates : thread_store(t)
    \/ \E t \in ThreadStates : thread_play(t)

Spec == Init /\ [][Next]_vars

TypeOK ==
    /\ app \in {"off", "constructing", "running", "closed", "crashed"}
    /\ eng_state \in {"NothingSpecial", "Playing", "Paused", "Ended", "Stopped"}
    /\ ui_pc \in {"idle", "load", "play", "start", "store"}
    /\ mon_pc \in {"none", "while", "slept", "check", "done"}
    /\ tm_pc \in {"none", "while", "body", "done"}
    /\ end_dispatched \in BOOLEAN
    /\ BagCardinality(threads) <= MaxThreads

\* ------------------------------------------------------------------ the event loop alone
\* The handlers of the Tk event loop, one after the other, with the observer
\* of commands: the runs in which no watcher thread takes a step between the
\* commands.
SeqInit == InitWith(ConfigFiles, "commands")

SeqNext ==
    \/ \E scan \in ScanResults : Construct(scan)
    \/ load_current_playlist
    \/ ui_play
    \/ start_monitors
    \/ open_options
    \/ \E b \in BOOLEAN : save_colors(b)
    \/ \E n \in Names : on_playlist_change(n)
    \/ \E scan \in ScanResults : refresh_playlists(scan)
    \/ next_song
    \/ prev_song
    \/ ui_store
    \/ toggle_play
    \/ on_close
    \/ process_exit
    \/ track_ends

SeqSpec == SeqInit /\ [][SeqNext]_vars

\* ------------------------------------------------------------------ the volume buttons
\* Startup, the two volume buttons and shutdown, from every volume config.json
\* can hold: json.load takes any integer, and load_config checks none.
StoredVolumes ==
    {v \in (MinVolume - VolumeSlack) .. (MaxVolume + VolumeSlack) : v % 5 = 0}

VolumeConfigFiles ==
    {save_config([DefaultConfig EXCEPT !.volume = v]) : v \in StoredVolumes}
        \cup {[state |-> "missing", data |-> NoDocument]}

VolInit == InitWith(VolumeConfigFiles, "off")

VolNext ==
    \/ \E scan \in ScanResults : Construct(scan)
    \/ load_current_playlist
    \/ ui_play
    \/ start_monitors
    \/ volume_up
    \/ volume_down
    \/ on_close
    \/ process_exit

VolSpec == VolInit /\ [][VolNext]_vars

\* ------------------------------------------------------------------ the watchers
\* Startup, play/pause, the end of a track, shutdown, the next_song threads
\* and the two watcher loops with engine reads that may raise and the time
\* watcher's iteration in two steps, with the observer of watchers.  The
\* threads are scheduled: a step a thread can take is taken in the end.
WatchConfigFiles ==
    {[state |-> "missing", data |-> NoDocument],
     save_config([DefaultConfig EXCEPT !.playlist = "B", !.shuffle = FALSE])}

WatchInit == InitWith(WatchConfigFiles, "watchers")

thread_step == \E t \in ThreadStates : thread_next(t) \/ thread_store(t) \/ thread_play(t)

WatchNext ==
    \/ \E scan \in ScanResults : Construct(scan)
    \/ load_current_playlist
    \/ ui_play
    \/ start_monitors
    \/ toggle_play
    \/ track_ends
    \/ on_close
    \/ process_exit
    \/ monitor_loop
    \/ monitor_poll
    \/ check_song_ended
    \/ monitor_except
    \/ check_song_ended_except
    \/ monitor_time_head
    \/ monitor_time_body
    \/ monitor_time_except
    \/ thread_step

WatchFairness ==
    /\ WF_vars(monitor_loop)
    /\ WF_vars(monitor_poll)
    /\ WF_vars(check_song_ended)
    /\ WF_vars(monitor_time_head)
    /\ WF_vars(monitor_time_body)
    /\ WF_vars(thread_step)

WatchSpec == WatchInit /\ [][WatchNext]_vars /\ WatchFairness

\* ------------------------------------------------------------------ starting the watchers
\* Startup, further calls of start_player_monitor and start_time_monitor from
\* the event loop of the running player, the watcher loops, play/pause, the
\* end of a track and shutdown, with the observer of threads.
MonInit == InitWith(WatchConfigFiles, "threads")

MonNext ==
    \/ \E scan \in ScanResults : Construct(scan)
    \/ load_current_playlist
    \/ ui_play
    \/ start_monitors
    \/ start_player_monitor
    \/ start_time_monitor
    \/ toggle_play
    \/ track_ends
    \/ on_close
    \/ process_exit
    \/ monitor_loop
    \/ monitor_poll
    \/ check_song_ended
    \/ monitor_time_head
    \/ monitor_time_body
    \/ thread_step

MonSpec == MonInit /\ [][MonNext]_vars

\* ------------------------------------------------------------------ next beside auto-advance
\* Startup, the next button, the end of a track, the end-of-track watcher,
\* the next_song threads it starts and shutdown, with the observer of races.
RaceInit == InitWith(WatchConfigFiles, "race")

RaceNext ==
    \/ \E scan \in ScanResults : Construct(scan)
    \/ load_current_playlist
    \/ ui_play
    \/ start_monitors
    \/ next_song
    \/ ui_store
    \/ track_ends
    \/ on_close
    \/ process_exit
    \/ monitor_loop
    \/ monitor_poll
    \/ check_song_ended
    \/ monitor_time
    \/ thread_step

RaceSpec == RaceInit /\ [][RaceNext]_vars

\* ------------------------------------------------------------------ the time label
\* Startup, the time watcher with the elapsed times the engine can return,
\* and shutdown.
TimeInit == InitWith(WatchConfigFiles, "off")

TimeNext ==
    \/ \E scan \in ScanResults : Construct(scan)
    \/ load_current_playlist
    \/ ui_play
    \/ start_monitors
    \/ monitor_time_head
    \/ monitor_time_body
    \/ \E current_time \in get_time : update_time_display(current_time)
    \/ on_close
    \/ process_exit

TimeSpec == TimeInit /\ [][TimeNext]_vars

\* ------------------------------------------------------------------ the session file
\* Startup from every config.json, the commands that change the session
\* record, shutdown and the next startup, with the observer of commands.
SessionInit == InitWith(ConfigFiles \cup VolumeConfigFiles, "commands")

SessionNext ==
    \/ \E scan \in ScanResults : Construct(scan)
    \/ load_current_playlist
    \/ ui_play
    \/ start_monitors
    \/ open_options
    \/ \E b \in BOOLEAN : save_colors(b)
    \/ \E n \in Names : on_playlist_change(n)
    \/ next_song
    \/ ui_store
    \/ volume_up
    \/ volume_down
    \/ on_close
    \/ process_exit

SessionSpec == SessionInit /\ [][SessionNext]_vars

\* ------------------------------------------------------------------ the scan
\* scan_playlists applied to every tree of the model.
ScanInit == InitOn({[state |-> "missing", data |-> NoDocument]}, "off", Roots)

scan_music_root ==
    /\ scanned' = [done |-> TRUE, playlists |-> scan_playlists(music_root)]
    /\ UNCHANGED <<app, has_player, disk, config, playlists, current_playlist_name,
                   current_playlist_files, current_index, play_btn, eng_state,
                   eng_media, eng_volume, time_label, music_root,
                   player_monitor_running, time_monitor_running, mon_pc, tm_pc,
                   threads, ui_pc, ui_tmp, options_open, combo_values, err_pending,
                   end_dispatched, hist>>

ScanNext == scan_music_root

ScanSpec == ScanInit /\ [][ScanNext]_vars

\* ------------------------------------------------------------------ properties
\* The event loop and every next_song thread are at rest.
Quiescent == app = "running" /\ ui_pc = "idle" /\ threads = EmptyBag

\* A step in which a next_song thread is spawned.
Spawned == BagCardinality(threads') > BagCardinality(threads)

\* A step of the running process in which a next_song thread ends and the
\* engine is not what it was: the thread's load-and-play reached the engine.
ThreadCommand ==
    /\ app' = app
    /\ BagCardinality(threads') < BagCardinality(threads)
    /\ <<eng_state', eng_media'>> # <<eng_state, eng_media>>

\* C1: after startup from any persisted song_index and after any completed
\* operation, a non-empty current playlist has 0 <= current_index < its length.
C1_IndexInBounds ==
    (Quiescent /\ current_playlist_files # <<>>)
        => InRange(current_index, current_playlist_files)

\* C2: for one natural end of a track the watcher spawns next_song once: no
\* spawn happens at an Ended engine for which a spawn was already made.
C2_OneNextPerEnd ==
    [][(Spawned /\ eng_state = "Ended") => ~end_dispatched]_vars

\* C3: no step taken while the engine is Paused spawns a next_song thread,
\* however often the watcher polls.
C3_PausedNeverAdvances ==
    [][eng_state = "Paused" => ~Spawned]_vars

\* C3 witness: the user has paused, the watcher's poll saw the engine not
\* playing and check_song_ended is about to read the Paused state.
C3_PausedPolled ==
    /\ eng_state = "Paused"
    /\ play_btn = "play"
    /\ mon_pc = "check"
    /\ player_monitor_running
    /\ threads = EmptyBag

\* C4: the step in which play_song_at_index catches an engine error leaves
\* the current index, the persisted song_index, the transport glyph and the
\* engine as they were.
C4_ErrorLeavesStateUnchanged ==
    [][(~err_pending /\ err_pending')
          => /\ current_index' = current_index
             /\ json_load(disk'.data).song_index = json_load(disk.data).song_index
             /\ play_btn' = play_btn
             /\ eng_state' = eng_state]_vars

\* C5: once on_close has stopped the engine, nothing changes the engine's
\* state or media before the process is gone.
C5_NoCommandAfterShutdown ==
    [][(app = "closed" /\ app' = "closed")
          => (eng_state' = eng_state /\ eng_media' = eng_media)]_vars

\* C6: whenever the handler and the auto-advance threads have all finished,
\* the current index is below the length of a non-empty current playlist
\* (the lower bound is C1's).
C6_IndexBoundedUnderInterleaving ==
    (Quiescent /\ current_playlist_files # <<>>)
        => current_index < Len(current_playlist_files)

\* C7: while an engine error is pending (caught, and no user command since),
\* no next_song thread gets a load-and-play through to the engine.
C7_NoAutomaticRetry ==
    [][err_pending => ~ThreadCommand]_vars

\* C8: startup with an empty catalog completes: the process does not die in
\* __init__.
C8_EmptyCatalogStarts ==
    playlist_names(playlists) = {} => app # "crashed"

\* C9: selecting a name that is not in the catalog changes neither the current
\* playlist name, nor the current files, nor the index, nor the persisted
\* playlist.
C9_UnknownPlaylistIsNoOp ==
    [][\A n \in Names :
          (on_playlist_change(n) /\ n \notin playlist_names(playlists))
              => /\ current_playlist_name' = current_playlist_name
                 /\ current_playlist_files' = current_playlist_files
                 /\ current_index' = current_index
                 /\ json_load(disk'.data).playlist = json_load(disk.data).playlist]_vars

\* A step that is the call play_song_at_index(self.current_index), by the
\* handler or by a next_song thread.
PlayCall == ui_play \/ \E t \in BagToSet(threads) : thread_play(t)

\* C10: play_song_at_index with an index outside [0, L) changes neither the
\* current index, nor the session record, nor config.json, nor the engine.
C10_OutOfRangeIsNoOp ==
    [][(~InRange(current_index, current_playlist_files) /\ PlayCall)
          => UNCHANGED <<current_index, config, disk, eng_state, eng_media,
                         play_btn>>]_vars

\* C10 witness: startup from a negative persisted song_index has called
\* play_song_at_index(-1) on a non-empty playlist and gone on: the index, the
\* file and the engine are what they were before the call.
C10_RejectedAtStartup ==
    /\ app = "constructing"
    /\ ui_pc = "start"
    /\ has_player
    /\ current_playlist_files # <<>>
    /\ current_index < 0
    /\ json_load(disk.data).song_index = current_index
    /\ eng_media = NoMedia

StepCompleted ==
    /\ app = "running"
    /\ ui_pc = "idle"
    /\ hist.phase \in {"next", "prev", "next_prev"}

\* C12: with shuffle on, after next_song or prev_song on a playlist of length
\* L >= 1, whatever the index before (the commands before it included), the
\* current index is in [0, L), and it is 0 when L = 1.
C12_ShuffleInRange ==
    (StepCompleted /\ config.shuffle /\ current_playlist_files # <<>>)
        => /\ InRange(current_index, current_playlist_files)
           /\ Len(current_playlist_files) = 1 => current_index = 0

\* C12 witness: shuffled next_song then prev_song on the longest playlist, the
\* second draw being the last index and not the index the pair started from.
C12_ShuffledTwice ==
    /\ StepCompleted
    /\ config.shuffle
    /\ hist.phase = "next_prev"
    /\ Len(current_playlist_files) = MaxLen
    /\ current_index = MaxLen - 1
    /\ hist.index # current_index

\* C13: toggle_play pauses an engine that is playing; on an engine that is not
\* playing and has no media it loads the track at the current index and
\* plays it.
C13_ToggleLoadsCurrentTrack ==
    [][(toggle_play /\ has_player)
          => /\ is_playing => eng_state' = "Paused"
             /\ (/\ ~is_playing
                 /\ eng_media = NoMedia
                 /\ InRange(current_index, current_playlist_files))
                    => /\ eng_media' = current_playlist_files[current_index + 1]
                       /\ eng_state' = "Playing"]_vars

\* C14: after volume_up or volume_down, whatever volume was stored before,
\* the volume in the session record, the one in config.json and the level
\* of the engine are all in [0, 100].
C14_VolumeClamped ==
    [][(volume_up \/ volume_down)
          => /\ OnScale(config'.volume)
             /\ OnScale(json_load(disk'.data).volume)
             /\ has_player => OnScale(eng_volume')]_vars

\* Both watcher loops have returned (or were never started).
WatchersDone == mon_pc \in {"done", "none"} /\ tm_pc \in {"done", "none"}

\* C15: once on_close has cleared the flags, a watcher that reaches its flag
\* test leaves the loop, so it finishes at most the iteration it is in, also
\* when that iteration raises; and both loops do return (unless the process
\* is gone first).
C15_WatchersStopAfterClose ==
    /\ [][(app = "closed" /\ app' = "closed")
             => /\ (mon_pc = "while" /\ mon_pc' # mon_pc) => mon_pc' = "done"
                /\ (tm_pc = "while" /\ tm_pc' # tm_pc) => tm_pc' = "done"]_vars
    /\ (app = "closed") ~> (app # "closed" \/ WatchersDone)

\* C15 witness: after the close each watcher's last iteration raised, and both
\* loops have returned.
C15_StoppedAfterFailure ==
    /\ app = "closed"
    /\ hist.mon = "failed"
    /\ hist.tm = "failed"
    /\ mon_pc = "done"
    /\ tm_pc = "done"

\* C16: while its flag is set a watcher is inside its loop, never returned,
\* whatever engine calls failed; and after a failed call it enters the loop
\* body again (unless the window is closed first).
C16_FailureKeepsWatcher ==
    /\ [](player_monitor_running => mon_pc \in {"while", "slept", "check"})
    /\ [](time_monitor_running => tm_pc \in {"while", "body"})
    /\ (app = "running" /\ hist.mon = "failed")
           ~> (app # "running" \/ hist.mon = "polled")
    /\ (app = "running" /\ hist.tm = "failed")
           ~> (app # "running" \/ hist.tm = "polled")

\* C16 witness: each watcher has caught a failed engine call and is polling
\* again.
C16_PolledAfterFailure ==
    /\ app = "running"
    /\ player_monitor_running
    /\ time_monitor_running
    /\ hist.mon = "polled"
    /\ hist.tm = "polled"
    /\ mon_pc = "slept"
    /\ tm_pc = "body"

\* C17: whenever a command has completed (startup included), config.json
\* exists and holds the current playlist name and the current index.
C17_PersistedMatchesMemory ==
    Quiescent
        => /\ disk.state = "ok"
           /\ json_load(disk.data).playlist = current_playlist_name
           /\ json_load(disk.data).song_index = current_index

\* C18: when the program was closed and is started again against the catalog
\* it was closed with, the startup ends with the playlist name and the index
\* the program was closed with.
C18_RestartKeepsSelection ==
    (app = "running" /\ ui_pc = "idle" /\ hist.phase = "restarted")
        => /\ current_playlist_name = hist.name
           /\ current_index = hist.index

\* C19: when on_playlist_change for a name of the catalog has completed, that
\* playlist is the current one with its files, the index is 0, config.json
\* holds the name and index 0, and, with an engine and no engine error, track
\* 0 of the playlist is loaded and playing.
C19_SelectPlaysFirstTrack ==
    (app = "running" /\ ui_pc = "idle" /\ hist.phase = "select")
        => /\ current_playlist_name = hist.name
           /\ current_playlist_files = playlists_get(playlists, hist.name)
           /\ current_index = 0
           /\ disk = save_config(config)
           /\ json_load(disk.data).playlist = hist.name
           /\ json_load(disk.data).song_index = 0
           /\ (has_player /\ ~err_pending)
                 => /\ eng_media = <<hist.name, 1>>
                    /\ eng_state = "Playing"
                    /\ play_btn = "pause"

\* C19 witness: playlist B was chosen while another playlist was current, and
\* its first track is playing.
C19_SelectedOtherPlaylist ==
    /\ app = "running"
    /\ ui_pc = "idle"
    /\ hist.phase = "select"
    /\ hist.name = "B"
    /\ playlists["A"] = MaxLen
    /\ has_player
    /\ ~err_pending
    /\ eng_media = <<"B", 1>>
    /\ eng_state = "Playing"

\* C20: next_song and prev_song on an empty playlist return at once and leave
\* the index, the session record, config.json and the engine alone; on a
\* non-empty playlist, when they have completed, config.json holds the
\* current index and, with an engine and no engine error, the track at that
\* index is loaded and playing, the index they started from or not.
C20_StepSongEffect ==
    /\ [][((next_song \/ prev_song) /\ current_playlist_files = <<>>)
             => UNCHANGED <<current_index, config, disk, eng_state, eng_media,
                            eng_volume, play_btn, ui_pc>>]_vars
    /\ [](  (StepCompleted /\ current_playlist_files # <<>>)
             => /\ InRange(current_index, current_playlist_files)
                /\ json_load(disk.data).song_index = current_index
                /\ (has_player /\ ~err_pending)
                      => /\ eng_media = current_playlist_files[current_index + 1]
                         /\ eng_state = "Playing"
                         /\ play_btn = "pause")

\* C20 witness: next_song on a paused playlist of one track has loaded and
\* started the same track again.
C20_SameIndexPlayedAgain ==
    /\ StepCompleted
    /\ hist.phase = "next"
    /\ hist.eng = "Paused"
    /\ Len(current_playlist_files) = 1
    /\ hist.index = current_index
    /\ has_player
    /\ ~err_pending
    /\ eng_state = "Playing"

\* C25: starting the watchers is idempotent.  However often
\* start_player_monitor and start_time_monitor are called on the running
\* player, at most one thread runs monitor_player and at most one runs
\* monitor_time, each exactly while its loop has not returned, and without an
\* engine no thread is started and no flag is set.
C25_OneWatcherEach ==
    /\ hist.mon_threads = (IF mon_pc \in {"while", "slept", "check"} THEN 1 ELSE 0)
    /\ hist.tm_threads = (IF tm_pc \in {"while", "body"} THEN 1 ELSE 0)
    /\ ~has_player => /\ hist.mon_threads = 0 /\ hist.tm_threads = 0
                      /\ ~player_monitor_running /\ ~time_monitor_running

\* C25 witness: both start methods have been called again on a player with
\* an engine and both watchers run once.
C25_StartedAgain ==
    /\ app = "running" /\ has_player
    /\ hist.calls = MaxCalls
    /\ hist.mon_threads = 1 /\ hist.tm_threads = 1
    /\ mon_pc = "slept" /\ tm_pc = "body"

\* A call of play_song_at_index that has made the engine play a track.
Played ==
    /\ PlayCall
    /\ ~err_pending'
    /\ eng_state' = "Playing"
    /\ eng_state # "Playing" \/ eng_media' # eng_media

\* C26: with an engine, after play_song_at_index has played a track and after
\* volume_up or volume_down, the level of the engine is the volume of the
\* session record.
C26_EngineVolumeIsStored ==
    [][(has_player /\ (volume_up \/ volume_down \/ Played))
          => eng_volume' = config'.volume]_vars

\* C24: without shuffle, when a next_song of the event loop and a next_song
\* started by the end-of-track watcher have run at the same time from index
\* start on a playlist of length L and both have returned, the index is
\* (start + 2) mod L and, unless a load failed, the engine holds the track at
\* that index.
C24_BothNextsCount ==
    (/\ Quiescent /\ hist.phase = "both" /\ ~config.shuffle
     /\ InRange(hist.index, current_playlist_files))
        => /\ current_index = (hist.index + 2) % Len(current_playlist_files)
           /\ (has_player /\ ~err_pending)
                 => eng_media = current_playlist_files[current_index + 1]

\* C21: for every elapsed time the engine returns, the label update_time_display
\* sets reads MM:SS: two or more digits that give total_seconds // 60, a
\* colon, and exactly two digits that give total_seconds % 60.
C21_LabelIsMinutesSeconds ==
    [][\A current_time \in EngineTimes :
          update_time_display(current_time)
              => LET text == time_label'
                     n == Len(text)
                     total_seconds == current_time \div 1000
                 IN  /\ n >= 5
                     /\ text[n - 2] = ":"
                     /\ AllDigits(SubSeq(text, 1, n - 3))
                     /\ AllDigits(SubSeq(text, n - 1, n))
                     /\ DigitsValue(SubSeq(text, 1, n - 3)) = total_seconds \div 60
                     /\ DigitsValue(SubSeq(text, n - 1, n)) = total_seconds % 60]_vars

\* The program has just been constructed: load_config is done and nothing
\* has changed the session record since.
JustLoaded == app = "constructing" /\ ui_pc = "load"

SortedIgnoringCase(paths) ==
    \A i, j \in 1 .. Len(paths) : i < j => ~Less(lower(paths[j]), lower(paths[i]))

\* Some file of the listing has an audio extension, in whatever case.
HasAudio(listing) == \E i \in 1 .. Len(listing) : is_audio(listing[i])

\* C23: for a root whose top-level folders all hold an audio file, the scan
\* returns one entry per top-level folder and one entry "<parent>/<child>"
\* per folder one level down that holds audio files, and nothing else; every
\* list returned is not empty, holds the audio files of its folder and no
\* other, and is sorted case-insensitively by path.
C23_ScanRegistersFolders ==
    LET tree == music_root.entries
        dirs == {n \in TopNames : tree[n].kind = "dir"}
        result == scanned.playlists
    IN  (/\ scanned.done /\ music_root.isdir
         /\ \A n \in dirs : HasAudio(tree[n].files))
            => /\ DOMAIN result =
                      {<<n>> : n \in dirs}
                          \cup {<<n, "/", SubName>> :
                                    n \in {d \in dirs : /\ tree[d].has_sub
                                                         /\ HasAudio(tree[d].sub_files)}}
               /\ Cardinality({key \in DOMAIN result : Len(key) = 1}) = Cardinality(dirs)
               /\ \A key \in DOMAIN result :
                      LET listing == IF Len(key) = 1 THEN tree[key[1]].files
                                     ELSE tree[key[1]].sub_files
                      IN  /\ result[key] # <<>>
                          /\ SortedIgnoringCase(result[key])
                          /\ {result[key][i] : i \in 1 .. Len(result[key])}
                                 = {join(key, listing[i]) :
                                       i \in {j \in 1 .. Len(listing) : is_audio(listing[j])}}

\* C23 witness: two top-level folders with audio files, one of them with a
\* folder of audio files inside, and a listing that was not in order.
C23_ScannedNestedTree ==
    /\ scanned.done
    /\ DOMAIN scanned.playlists = {<<"A">>, <<"b">>, <<"b", "/", SubName>>}
    /\ music_root.entries["A"].files = <<<<"B", ".MP3">>, <<"a", ".mp3">>>>
    /\ scanned.playlists[<<"A">>] = <<<<"A", "/", "a", ".mp3">>, <<"A", "/", "B", ".MP3">>>>

====
